---- MODULE Spec2Model ----
(***************************************************************************)
(* Model of include/codepy/bpl.hpp:                                        *)
(*   - CODEPY_PYTHON_ERROR(TYPE, REASON): PyErr_SetString, then throw of    *)
(*     boost::python::error_already_set;                                    *)
(*   - CODEPY_PYTHON_FOREACH(TYPE, NAME, ITERABLE): BOOST_FOREACH over a    *)
(*     pair of stl_input_iterator;                                          *)
(*   - codepy::no_compare_indexing_suite<T>: vector_indexing_suite with     *)
(*     contains() replaced by an unconditional NotImplementedError.         *)
(* The operations inherited from vector_indexing_suite are not defined in   *)
(* this header; they are modelled from the specification's section 4.2,     *)
(* for non-negative indices only.                                           *)
(***************************************************************************)
EXTENDS Integers, Sequences, FiniteSets

\* ------------------------------------------------------------------ bounds
MaxLen == 3
MaxVal == 2
MaxItems == 3

Values == 1..MaxVal
Indices == 0..MaxLen

RECURSIVE SeqsUpTo(_, _)
SeqsUpTo(S, n) ==
  IF n = 0 THEN {<<>>}
  ELSE LET shorter == SeqsUpTo(S, n - 1)
       IN shorter \cup {Append(s, x) : s \in {t \in shorter : Len(t) = n - 1}, x \in S}

\* --------------------------------------------------------------- variables
VARIABLES
  container,  \* the adapted std::vector<value_type> (T &container)
  pc,         \* position of the native call in progress
  ip,         \* index of the next statement of the macro's block
  op,         \* the operation entered last
  arg,        \* its argument (key, index, ...)
  macro,      \* (TYPE, REASON) of the macro invocation in progress
  pending,    \* the interpreter's pending-error state
  result,     \* value returned by the native call
  steps,      \* statements of the macro block executed in this call
  reads,      \* element positions of the container read in this call
  observed,   \* what the scripting caller saw of the last finished call
  log,        \* the last events since the container was last mutated:
              \* listings produced by iterations, and containment tests
  lastSet,    \* the last successful indexed set, while nothing mutated since
  iterable,   \* items the scripting-layer iterator has still to produce
  items,      \* items the iterable held when the loop was entered
  cur,        \* ob_ of the loop's begin iterator
  fpc,        \* position in the CODEPY_PYTHON_FOREACH loop
  bodyLog     \* values NAME was bound to, one per run of the body

adapterVars == <<container, pc, ip, op, arg, macro, pending, result, steps,
                 reads, observed, log, lastSet>>
foreachVars == <<iterable, items, cur, fpc, bodyLog>>
vars == <<adapterVars, foreachVars>>

\* ---------------------------------------------------------------- values
NoError == [type |-> "NULL", value |-> ""]
\* The returned value is held as a one-element tuple; no value is the empty one.
NoResult == <<>>
Returned(v) == <<v>>
NoSet == [i |-> -1, v |-> 0, before |-> <<>>]
NotObserved == [kind |-> "nothing"]

Types == {"NotImplementedError", "ValueError"}
ContainsReason == "containment checking not supported on this container"
Reasons == {ContainsReason, "invalid value"}
EarlierError == [type |-> "PyExc_RuntimeError", value |-> "earlier failure"]

\* PyExc_##TYPE: the token pasted at line 14 names the exception class object.
PyExc(TYPE) == "PyExc_" \o TYPE

AllTypes == Types \cup {"RuntimeError", "IndexError"}

\* The category the scripting caller sees: the class whose object is pending.
ClassName(cls) == CHOOSE t \in AllTypes : PyExc(t) = cls

\* PyErr_SetString(type, message) replaces the pending error, whatever it was.
PyErr_SetString_keep(earlier, type, message) ==
  IF earlier # NoError THEN earlier ELSE [type |-> type, value |-> message]

PyErr_SetString(earlier, type, message) == [type |-> type, value |-> message]

\* The macro's block, lines 13 to 16: its statements in order.
CODEPY_PYTHON_ERROR_no_throw == <<"PyErr_SetString">>

CODEPY_PYTHON_ERROR_swapped == <<"throw", "PyErr_SetString">>

CODEPY_PYTHON_ERROR == <<"PyErr_SetString", "throw">>

at(c, i) == c[i + 1]

RECURSIVE Insert(_, _)
Insert(s, x) ==
  IF s = <<>> THEN <<x>>
  ELSE IF x <= Head(s) THEN <<x>> \o s
  ELSE <<Head(s)>> \o Insert(Tail(s), x)

RECURSIVE std_sort(_)
std_sort(s) == IF s = <<>> THEN <<>> ELSE Insert(std_sort(Tail(s)), Head(s))

\* Positions std::find reads looking for key: up to and including the first match.
FindReads(c, key) ==
  {i \in 0..(Len(c) - 1) : \A j \in 0..(i - 1) : at(c, j) # key}

NoMacro == [TYPE |-> "", REASON |-> ""]

MaxLog == 3
\* An event equal to the last one logged is not logged again.
Logged(e) ==
  IF log # <<>> /\ log[Len(log)] = e THEN log
  ELSE IF Len(log) < MaxLog THEN Append(log, e)
  ELSE Append(Tail(log), e)
Listing(c) == [e |-> "iter", listing |-> c]
Probe == [e |-> "contains", listing |-> <<>>]

ghostUnchanged == UNCHANGED <<lastSet, foreachVars>>

\* ---------------------------------------------------------------- contains
\* A variant that searches the container, as vector_indexing_suite's does.
contains_scan(key) ==
  /\ pc = "idle"
  /\ op' = "contains"
  /\ arg' = key
  /\ reads' = FindReads(container, key)
  /\ result' = Returned(\E i \in 0..(Len(container) - 1) : at(container, i) = key)
  /\ pc' = "returned"
  /\ steps' = <<>>
  /\ log' = Logged(Probe)
  /\ observed' = NotObserved
  /\ UNCHANGED <<container, ip, macro, pending>>
  /\ ghostUnchanged

\* A variant that sorts the container through its mutable reference first.
contains_sorting(key) ==
  /\ pc = "idle"
  /\ op' = "contains"
  /\ arg' = key
  /\ container' = std_sort(container)
  /\ macro' = [TYPE |-> "NotImplementedError", REASON |-> ContainsReason]
  /\ pc' = "macro"
  /\ ip' = 1
  /\ steps' = <<>>
  /\ reads' = {}
  /\ result' = NoResult
  /\ log' = Logged(Probe)
  /\ observed' = NotObserved
  /\ UNCHANGED pending
  /\ ghostUnchanged

\* no_compare_indexing_suite::contains(T &container, value_type const &key):
\* the body is the macro's block and nothing else.
contains(key) ==
  /\ pc = "idle"
  /\ op' = "contains"
  /\ arg' = key
  /\ macro' = [TYPE |-> "NotImplementedError", REASON |-> ContainsReason]
  /\ pc' = "macro"
  /\ ip' = 1
  /\ steps' = <<>>
  /\ reads' = {}
  /\ result' = NoResult
  /\ log' = Logged(Probe)
  /\ observed' = NotObserved
  /\ UNCHANGED <<container, pending>>
  /\ ghostUnchanged

\* Any other native function that reaches CODEPY_PYTHON_ERROR(TYPE, REASON),
\* with or without an error left pending by what it did before.
native_function(TYPE, REASON, earlier) ==
  /\ pc = "idle"
  /\ op' = "native"
  /\ arg' = 0
  /\ macro' = [TYPE |-> TYPE, REASON |-> REASON]
  /\ pending' = earlier
  /\ pc' = "macro"
  /\ ip' = 1
  /\ steps' = <<>>
  /\ reads' = {}
  /\ result' = NoResult
  /\ observed' = NotObserved
  /\ UNCHANGED <<container, log>>
  /\ ghostUnchanged

\* ------------------------------------------------------- the macro's block
\* After a statement that is not a throw: the next statement of the block, or
\* past the block's end, where the function ends with no return statement
\* (for a function returning bool the value is indeterminate).
Advance ==
  IF ip < Len(CODEPY_PYTHON_ERROR)
  THEN pc' = "macro" /\ ip' = ip + 1 /\ result' = result
  ELSE pc' = "returned" /\ ip' = ip /\ result' \in {Returned(TRUE), Returned(FALSE)}

\* Line 14.
ExecPyErrSetString ==
  /\ pc = "macro"
  /\ ip <= Len(CODEPY_PYTHON_ERROR)
  /\ CODEPY_PYTHON_ERROR[ip] = "PyErr_SetString"
  /\ pending' = PyErr_SetString(pending, PyExc(macro.TYPE), macro.REASON)
  /\ steps' = Append(steps, "PyErr_SetString")
  /\ Advance
  /\ UNCHANGED <<container, op, arg, macro, reads, observed, log>>
  /\ ghostUnchanged

\* Line 15.
ExecThrow ==
  /\ pc = "macro"
  /\ ip <= Len(CODEPY_PYTHON_ERROR)
  /\ CODEPY_PYTHON_ERROR[ip] = "throw"
  /\ pc' = "unwinding"
  /\ steps' = Append(steps, "throw")
  /\ UNCHANGED <<container, ip, op, arg, macro, pending, result, reads,
                 observed, log>>
  /\ ghostUnchanged

\* The binding layer catches error_already_set and the interpreter raises the
\* pending error in the scripting caller.
Catch ==
  /\ pc = "unwinding"
  /\ pc' = "idle"
  /\ observed' = [kind |-> "raised",
                  category |-> IF pending = NoError THEN "SystemError"
                               ELSE ClassName(pending.type),
                  message |-> pending.value]
  /\ pending' = NoError
  /\ UNCHANGED <<container, ip, op, arg, macro, result, steps, reads, log>>
  /\ ghostUnchanged

\* The native call returns a value to the scripting caller.
Return ==
  /\ pc = "returned"
  /\ pc' = "idle"
  /\ observed' = [kind |-> "value", value |-> result]
  /\ UNCHANGED <<container, ip, op, arg, macro, pending, result, steps, reads,
                 log>>
  /\ ghostUnchanged

\* ------------------------------------- operations of vector_indexing_suite
\* (inherited at line 31; their behaviour is the generic helper's)
mutated == log' = <<>>

enter(name, a) ==
  /\ pc = "idle"
  /\ op' = name
  /\ arg' = a
  /\ steps' = <<>>
  /\ ip' = 1
  /\ macro' = NoMacro
  /\ observed' = NotObserved
  /\ UNCHANGED foreachVars

RangeError == [type |-> PyExc("IndexError"), value |-> "index out of range"]

size ==
  /\ enter("len", 0)
  /\ result' = Returned(Len(container))
  /\ reads' = {}
  /\ pc' = "returned"
  /\ UNCHANGED <<container, pending, log>>
  /\ ghostUnchanged

get_item(i) ==
  /\ enter("get", i)
  /\ IF i < Len(container)
     THEN /\ result' = Returned(at(container, i))
          /\ reads' = {i}
          /\ pc' = "returned"
          /\ pending' = pending
     ELSE /\ result' = NoResult
          /\ reads' = {}
          /\ pc' = "unwinding"
          /\ pending' = RangeError
  /\ UNCHANGED <<container, log>>
  /\ ghostUnchanged

set_item(i, v) ==
  /\ enter("set", i)
  /\ reads' = {}
  /\ result' = NoResult
  /\ IF i < Len(container)
     THEN /\ container' = [container EXCEPT ![i + 1] = v]
          /\ lastSet' = [i |-> i, v |-> v, before |-> container]
          /\ mutated
          /\ pc' = "returned"
          /\ pending' = pending
     ELSE /\ pc' = "unwinding"
          /\ pending' = RangeError
          /\ UNCHANGED <<container, lastSet, log>>

append(v) ==
  /\ enter("append", v)
  /\ Len(container) < MaxLen
  /\ container' = Append(container, v)
  /\ lastSet' = NoSet
  /\ mutated
  /\ reads' = {}
  /\ result' = NoResult
  /\ pc' = "returned"
  /\ UNCHANGED pending

\* Iteration is derived anew from the container each time it is requested.
iter ==
  /\ enter("iter", 0)
  /\ result' = Returned(container)
  /\ reads' = 0..(Len(container) - 1)
  /\ log' = Logged(Listing(container))
  /\ pc' = "returned"
  /\ UNCHANGED <<container, pending, lastSet>>

get_slice(from, to) ==
  /\ enter("slice", from)
  /\ from <= to
  /\ to <= Len(container)
  /\ result' = Returned(SubSeq(container, from + 1, to))
  /\ reads' = from..(to - 1)
  /\ pc' = "returned"
  /\ UNCHANGED <<container, pending, log>>
  /\ ghostUnchanged

\* ------------------------------------------------------ the adapter's runs
ForeachOff ==
  /\ iterable = <<>>
  /\ items = <<>>
  /\ cur = "off"
  /\ fpc = "off"
  /\ bodyLog = <<>>

Init ==
  /\ container \in SeqsUpTo(Values, MaxLen)
  /\ pc = "idle"
  /\ ip = 1
  /\ op = "none"
  /\ arg = 0
  /\ macro = NoMacro
  /\ pending = NoError
  /\ result = NoResult
  /\ steps = <<>>
  /\ reads = {}
  /\ observed = NotObserved
  /\ log = <<>>
  /\ lastSet = NoSet
  /\ ForeachOff

CallContains == \E key \in Values : contains(key)
CallNative ==
  \E TYPE \in Types, REASON \in Reasons, earlier \in {NoError, EarlierError} :
    native_function(TYPE, REASON, earlier)
CallGet == \E i \in Indices : get_item(i)
CallSet == \E i \in Indices, v \in Values : set_item(i, v)
CallAppend == \E v \in Values : append(v)
CallSlice == \E from \in Indices, to \in Indices : get_slice(from, to)

Next ==
  \/ CallContains
  \/ CallNative
  \/ ExecPyErrSetString
  \/ ExecThrow
  \/ Catch
  \/ Return
  \/ size
  \/ CallGet
  \/ CallSet
  \/ CallAppend
  \/ iter
  \/ CallSlice

Spec == Init /\ [][Next]_vars

\* --------------------------------------------------- CODEPY_PYTHON_FOREACH
\* Items of the scripting-layer iterable are interpreter objects; TYPE NAME is
\* bound to the object converted to TYPE (stl_input_iterator<TYPE> extracts).
PyObject(n) == [ob_type |-> "int", ob_ival |-> n]
PyObjects == {PyObject(n) : n \in Values}
NULL == [ob_type |-> "NULL", ob_ival |-> 0]
extract(ob) == ob.ob_ival

\* PyIter_Next on the iterable: the next item, or NULL once it is exhausted.
NextItem == IF iterable = <<>> THEN NULL ELSE Head(iterable)
Consume == iterable' = IF iterable = <<>> THEN <<>> ELSE Tail(iterable)

\* Line 22 with ITERABLE passed to the end iterator as well: a second iterator
\* that holds the iterable's first item.
EndIterator_from_iterable == IF items = <<>> THEN NULL ELSE items[1]

\* Line 22: stl_input_iterator<TYPE>(), which holds no object.
EndIterator == NULL

\* Two stl_input_iterators are equal when both or neither hold an object.
iterator_equal(a, b) == (a = NULL) = (b = NULL)

adapterIdle == UNCHANGED adapterVars

\* Line 21: stl_input_iterator<TYPE>(ITERABLE) fetches the first item.
ForeachBegin ==
  /\ fpc = "begin"
  /\ cur' = NextItem
  /\ Consume
  /\ fpc' = "test"
  /\ UNCHANGED <<items, bodyLog>>
  /\ adapterIdle

\* BOOST_FOREACH's loop condition: begin != end.
ForeachTest ==
  /\ fpc = "test"
  /\ fpc' = IF iterator_equal(cur, EndIterator) THEN "done" ELSE "body"
  /\ UNCHANGED <<iterable, items, cur, bodyLog>>
  /\ adapterIdle

\* TYPE NAME = *begin, then the loop's body.
ForeachBody ==
  /\ fpc = "body"
  /\ bodyLog' = Append(bodyLog, extract(cur))
  /\ fpc' = "incr"
  /\ UNCHANGED <<iterable, items, cur>>
  /\ adapterIdle

\* ++begin.
ForeachIncr ==
  /\ fpc = "incr"
  /\ cur' = NextItem
  /\ Consume
  /\ fpc' = "test"
  /\ UNCHANGED <<items, bodyLog>>
  /\ adapterIdle

InitForeach ==
  /\ container = <<>>
  /\ pc = "idle"
  /\ ip = 1
  /\ op = "none"
  /\ arg = 0
  /\ macro = NoMacro
  /\ pending = NoError
  /\ result = NoResult
  /\ steps = <<>>
  /\ reads = {}
  /\ observed = NotObserved
  /\ log = <<>>
  /\ lastSet = NoSet
  /\ iterable \in SeqsUpTo(PyObjects, MaxItems)
  /\ items = iterable
  /\ cur = NULL
  /\ fpc = "begin"
  /\ bodyLog = <<>>

NextForeach ==
  \/ ForeachBegin
  \/ ForeachTest
  \/ ForeachBody
  \/ ForeachIncr

\* The loop is sequential code: a step that can be taken is taken.
SpecForeach == InitForeach /\ [][NextForeach]_vars /\ WF_vars(NextForeach)

\* ================================================================= claims
MacroOps == {"contains", "native"}
InheritedOps == {"len", "get", "set", "append", "iter", "slice"}
NotImplemented == PyExc("NotImplementedError")
Elements(c) == {c[k] : k \in DOMAIN c}
Probed == \E k \in DOMAIN log : log[k].e = "contains"

C2_SetThenThrowNeverReturns ==
  op \in MacroOps =>
    /\ pc # "returned"
    /\ pc = "macro" => /\ ip \in {1, 2}
                       /\ ip = 1 => steps = <<>>
                       /\ ip = 2 => steps = <<"PyErr_SetString">>
    /\ (pc = "macro" /\ ip = 2) \/ pc = "unwinding" =>
         pending = [type |-> PyExc(macro.TYPE), value |-> macro.REASON]
    /\ pc \in {"unwinding", "idle"} => steps = <<"PyErr_SetString", "throw">>

C2_Witness ==
  /\ op = "native"
  /\ pc = "unwinding"
  /\ steps = <<"PyErr_SetString", "throw">>
  /\ macro.TYPE = "ValueError"

\* C3: the caller of a containment test observes NotImplementedError with the
\* fixed message, for every key and content; after any CODEPY_PYTHON_ERROR the
\* caller observes exactly the (TYPE, REASON) given to the macro, whatever
\* error was pending before.
C3_ObservedErrorIsTheMacrosPair ==
  /\ (op = "contains" /\ pc = "idle") =>
       observed = [kind |-> "raised", category |-> "NotImplementedError",
                   message |-> ContainsReason]
  /\ (op \in MacroOps /\ pc = "idle") =>
       observed = [kind |-> "raised", category |-> macro.TYPE,
                   message |-> macro.REASON]

C3_Witness ==
  /\ op = "contains"
  /\ pc = "idle"
  /\ observed.kind = "raised"
  /\ observed.message = ContainsReason
  /\ arg \notin Elements(container)

\* C4: iterations of the container with no mutation between them list the
\* same elements in the same order, also when containment tests failed
\* before or between them.
C4_IterationRestartable ==
  \A j \in DOMAIN log, k \in DOMAIN log :
    (log[j].e = "iter" /\ log[k].e = "iter") => log[j].listing = log[k].listing

C4_Witness ==
  /\ Len(log) = 3
  /\ log[1].e = "iter"
  /\ log[2].e = "contains"
  /\ log[3].e = "iter"
  /\ Len(log[3].listing) >= 2
  /\ log[3].listing[1] > log[3].listing[2]

\* C6: after set(i, v) at a valid index, get(i) returns v, and the length and
\* every other element are as before the set, also when containment tests
\* failed in between.
C6_SetThenGetRoundTrip ==
  lastSet # NoSet =>
    /\ (op = "get" /\ pc = "returned" /\ arg = lastSet.i) =>
         result = Returned(lastSet.v)
    /\ Len(container) = Len(lastSet.before)
    /\ \A j \in 0..(Len(container) - 1) :
         at(container, j) = IF j = lastSet.i THEN lastSet.v
                            ELSE at(lastSet.before, j)

C6_Witness ==
  /\ lastSet # NoSet
  /\ op = "get"
  /\ pc = "returned"
  /\ arg = lastSet.i
  /\ at(lastSet.before, lastSet.i) # lastSet.v
  /\ Probed

\* C7: of the adapter's operations only contains leaves NotImplementedError
\* pending or raised; an inherited operation fails only on the range check of
\* get and set.
C7_OnlyContainsIsNotImplemented ==
  op \in InheritedOps =>
    /\ pending.type # NotImplemented
    /\ observed.kind = "raised" => observed.category # "NotImplementedError"
    /\ pc = "unwinding" => /\ op \in {"get", "set"}
                           /\ arg >= Len(container)
                           /\ pending = RangeError

C7_Witness ==
  /\ op = "set"
  /\ pc = "idle"
  /\ observed.kind = "raised"
  /\ observed.category = "IndexError"
  /\ Probed

\* C8: while the error_already_set thrown by CODEPY_PYTHON_ERROR propagates,
\* an error is pending in the interpreter.
C8_UnwindImpliesPending ==
  (pc = "unwinding" /\ op \in MacroOps) => pending # NoError

C8_Witness ==
  /\ pc = "unwinding"
  /\ op = "contains"
  /\ pending.type = NotImplemented

\* C9: no step of a containment test changes the container: its length and
\* its elements after the failed call are those before it.
C9_ContainsLeavesContainer ==
  [][op' = "contains" => container' = container]_vars

C9_Witness ==
  /\ op = "contains"
  /\ pc = "idle"
  /\ observed.kind = "raised"
  /\ Len(container) = MaxLen

\* C10: the loop runs its body once per item the iterable produces, in order,
\* with NAME bound to the item converted to TYPE, and ends once the iterable
\* is exhausted; for an empty iterable the body does not run.
Converted(s) == [k \in DOMAIN s |-> extract(s[k])]

C10_ForeachVisitsEachItemOnce ==
  /\ [](/\ Len(bodyLog) <= Len(items)
        /\ bodyLog = SubSeq(Converted(items), 1, Len(bodyLog))
        /\ fpc = "done" => (bodyLog = Converted(items) /\ iterable = <<>>))
  /\ <>(fpc = "done")

C10_Witness ==
  /\ fpc = "done"
  /\ Len(bodyLog) >= 2
  /\ bodyLog[1] # bodyLog[2]

====
